---- MODULE Spec2Model ----
(***************************************************************************)
(* Health-and-safety reports backend: the report controller (the routed    *)
(* handlers), the report service, the image utilities and the company      *)
(* controller, over the tables of the migrations (reports, observations,   *)
(* companies, user_companies) and the report-images storage bucket.        *)
(*                                                                         *)
(* A request arrives (Receive), one handler runs to completion on it, the  *)
(* response is delivered (Respond).  The tables are modelled with their    *)
(* declared constraints (NOT NULL, CHECK, UNIQUE, PRIMARY KEY, ON DELETE   *)
(* CASCADE); row-level policies are not modelled: every query is taken to  *)
(* see the rows its filters select.                                        *)
(***************************************************************************)
EXTENDS Integers, Sequences, FiniteSets, TLC

VARIABLES reports, observations, blobs, uploads, nextReport, nextObs,
          companies, userCompanies, nextCompany, req, resp

vars == <<reports, observations, blobs, uploads, nextReport, nextObs,
          companies, userCompanies, nextCompany, req, resp>>

(* ------------------------------ bounds -------------------------------- *)

MaxReports == 2

MaxObs == 2

MaxFiles == 2

MaxEntries == 2

MaxDels == 1

MaxCompanies == 2

Users == {"u1", "u2"}

(* ------------------------- values of the program ----------------------- *)

\* An absent id (obs.id, obs.tempId undefined): falsy in `obs.id && ...`.
NoId == 0

\* A string field that is undefined (or empty) in the request: falsy.
Undef == "undefined"

\* image_url NULL / imageUrl absent.
NoUrl == << >>

\* Date.now() in `image_new_${obs.tempId || Date.now()}`: no uploaded file
\* carries this stamp.
Now == 99

RiskLevels == {"low", "medium", "high"}

StatusValues == {"draft", "finalized"}

\* uuidv4() file names, in order of generation.
FileNames == <<"f1", "f2", "f3", "f4", "f5", "f6", "f7", "f8">>

\* a || b on strings
Or(a, b) == IF a # Undef THEN a ELSE b

\* a || b on image URLs
UrlOr(a, b) == IF a # NoUrl THEN a ELSE b

\* storagePath = `${userId}/${uuidv4()}.${fileExt}`
StoragePath(userId, n) == <<userId, FileNames[n]>>

\* getPublicUrl(path): .../report-images/<userId>/<file>
PublicUrl(path) == <<"report-images">> \o path

\* deleteImage: the last two segments of the URL's pathname
PathOfUrl(url) ==
  IF Len(url) >= 2 THEN <<url[Len(url) - 1], url[Len(url)]>> ELSE url

\* controller deleteReport: url.pathname.split('/').pop(), the last segment only
LastSegment(url) ==
  IF Len(url) >= 1 THEN <<url[Len(url)]>> ELSE url

\* multipart field names
ImageField(id) == <<"image", id>>

ImageNewField(t) == <<"image_new", t>>

ImagesField == <<"images", 0>>

(* ------------------------------ the store ------------------------------ *)

\* The tables and the bucket a handler reads and writes.
Db == [reports |-> reports, observations |-> observations, blobs |-> blobs,
       uploads |-> uploads, nextReport |-> nextReport, nextObs |-> nextObs]

\* variant: the lookup without the .eq('user_id', userId) filter
OwnsReport_AnyUser(db, reportId, userId) == reportId \in DOMAIN db.reports

\* throw new ApiError(status, message), answered by the error handler
ApiError(db, status, message) == [db |-> db, status |-> status, error |-> message]

\* .from('reports').select().eq('id', reportId).eq('user_id', userId).single()
OwnsReport(db, reportId, userId) ==
  /\ reportId \in DOMAIN db.reports
  /\ db.reports[reportId].user_id = userId

\* .from('observations').select('*').eq('report_id', reportId), keyed by id
\* (existingObsMap)
ExistingObsMap(db, reportId) ==
  {i \in DOMAIN db.observations : db.observations[i].report_id = reportId}

\* CHECK (status IN ('draft', 'finalized'))
StatusCheck(status) == status \in StatusValues

\* observation TEXT NOT NULL, CHECK (risk_level IN ('low', 'medium', 'high'))
ObservationCheck(row) ==
  /\ row.observation # Undef
  /\ row.risk_level \in RiskLevels

\* uploadImage / uploadImageFromPath: the n-th upload of the store so far
UploadBlob(db, path) ==
  [db EXCEPT !.blobs = @ \cup {path}, !.uploads = Append(@, path),
             !.log = Append(@, "upload")]

\* the store as a handler sees it during one call: removeFails tells whether
\* the bucket answers remove() with an error during that call, removed collects
\* the paths the call asks the bucket to remove, log the uploads and the
\* statements on observations in the order the call issues them
Storage(db, removeFails) ==
  [k \in DOMAIN db \cup {"removeFails", "removed", "log", "uploadFails"} |->
     IF k = "removeFails" THEN removeFails
     ELSE IF k = "removed" THEN {}
     ELSE IF k = "log" THEN << >>
     ELSE IF k = "uploadFails" THEN NoId
     ELSE db[k]]

\* the store during a createReport call in which the bucket answers the n-th
\* upload of the call with an error (none when n is NoId)
FailingUpload(db, n) == [db EXCEPT !.uploadFails = n]

\* upload(...) answered with { error }: the generated name is used up and no
\* blob is stored
UploadRejected(db, path) ==
  [db EXCEPT !.uploads = Append(@, path), !.log = Append(@, "upload")]

\* a statement on the table observations is issued
Issue(db, statement) == [db EXCEPT !.log = Append(@, statement)]

\* storage.from('report-images').remove([path]): { error } when the bucket
\* fails, and the blob stays; removing a missing key is no error
RemoveBlob(db, path) ==
  [db EXCEPT !.removed = @ \cup {path},
             !.blobs = IF db.removeFails THEN @ ELSE @ \ {path}]

\* deleteImage(imageUrl)
DeleteImage(db, imageUrl) ==
  IF imageUrl = NoUrl THEN db ELSE RemoveBlob(db, PathOfUrl(imageUrl))

\* variant: an update that writes the text column only
UpdateObservationRow_TextOnly(db, reportId, row) ==
  IF /\ row.id \in DOMAIN db.observations
     /\ db.observations[row.id].report_id = reportId
     /\ ObservationCheck(row)
  THEN [Issue(db, "update") EXCEPT
          !.observations[row.id].observation = row.observation]
  ELSE Issue(db, "update")

\* .from('observations').update({...}).eq('id', id).eq('report_id', reportId):
\* the row changes unless a constraint rejects the new values
UpdateObservationRow(db, reportId, row) ==
  IF /\ row.id \in DOMAIN db.observations
     /\ db.observations[row.id].report_id = reportId
     /\ ObservationCheck(row)
  THEN [Issue(db, "update") EXCEPT !.observations[row.id] =
          [report_id |-> reportId, observation |-> row.observation,
           risk_level |-> row.risk_level, image_url |-> row.image_url]]
  ELSE Issue(db, "update")

\* .from('observations').insert(rows): one statement, all rows or none;
\* ids are generated in the order of the rows
RECURSIVE InsertRows(_, _)
InsertRows(db, rows) ==
  IF rows = << >> THEN db
  ELSE LET r == Head(rows)
           db1 == [db EXCEPT
                     !.observations = [i \in DOMAIN @ \cup {db.nextObs} |->
                        IF i = db.nextObs
                        THEN [report_id |-> r.report_id,
                              observation |-> r.observation,
                              risk_level |-> r.risk_level,
                              image_url |-> r.image_url]
                        ELSE @[i]],
                     !.nextObs = @ + 1]
       IN InsertRows(db1, Tail(rows))

InsertObservations(db, rows) ==
  IF rows = << >> THEN db
  ELSE IF \A k \in 1..Len(rows) : ObservationCheck(rows[k])
  THEN InsertRows(Issue(db, "insert"), rows)
  ELSE Issue(db, "insert")

InsertFails(rows) == \E k \in 1..Len(rows) : ~ObservationCheck(rows[k])

\* .from('observations').delete().eq('id', obsId).eq('report_id', reportId)
DeleteObservationRow(db, reportId, obsId) ==
  [Issue(db, "delete") EXCEPT !.observations =
     [i \in {j \in DOMAIN @ : ~(j = obsId /\ @[j].report_id = reportId)} |-> @[i]]]

\* .from('reports').delete().eq('id', reportId).eq('user_id', userId);
\* observations.report_id REFERENCES reports ON DELETE CASCADE
DeleteReportRow(db, reportId, userId) ==
  IF OwnsReport(db, reportId, userId)
  THEN [db EXCEPT
          !.reports = [i \in DOMAIN @ \ {reportId} |-> @[i]],
          !.observations =
             [i \in {j \in DOMAIN @ : @[j].report_id # reportId} |-> @[i]]]
  ELSE db

(* ------------------- updateReport: the routed controller ---------------- *)

\* if (obs.id && existingObsMap[obs.id])
IsExistingEntry(db, reportId, e) ==
  e.id # NoId /\ e.id \in ExistingObsMap(db, reportId)

\* the multipart field an entry's file is looked up by (req.files.find)
EntryField(db, reportId, e) ==
  IF IsExistingEntry(db, reportId, e)
  THEN ImageField(e.id)
  ELSE ImageNewField(IF e.tempId # NoId THEN e.tempId ELSE Now)

\* whether the entry's file is found and uploaded
EntryUploads(db, reportId, e, files) ==
  IF IsExistingEntry(db, reportId, e)
  THEN e.newImage /\ files # {} /\ EntryField(db, reportId, e) \in files
  ELSE files # {} /\ EntryField(db, reportId, e) \in files

\* variant: the update without "|| existing.image_url"
CtlUpdateImageUrl_NoStored(e, stored, uploadedUrl) == UrlOr(uploadedUrl, e.imageUrl)

\* controller, update path: image_url: imageUrl || existingObsMap[obs.id].image_url
\* with imageUrl = obs.imageUrl || null, replaced by the uploaded URL
CtlUpdateImageUrl(e, stored, uploadedUrl) ==
  UrlOr(UrlOr(uploadedUrl, e.imageUrl), stored)

\* controller, insert path: image_url: imageUrl
CtlInsertImageUrl(e, uploadedUrl) == UrlOr(uploadedUrl, e.imageUrl)

\* variant: 'low' for every inserted row
InsertRiskLevel_AlwaysLow(e) == "low"

\* risk_level: obs.riskLevel || 'low'
InsertRiskLevel(e) == Or(e.riskLevel, "low")

\* the object one entry is mapped to (processedObservations[k]); n uploads
\* were made before it
CtlProcessEntry(db, reportId, e, files, userId, n) ==
  LET up   == EntryUploads(db, reportId, e, files)
      path == IF up THEN StoragePath(userId, n + 1) ELSE << >>
      url  == IF up THEN PublicUrl(path) ELSE NoUrl
  IN IF IsExistingEntry(db, reportId, e)
     THEN [id |-> e.id, report_id |-> reportId,
           observation |-> Or(e.observation, db.observations[e.id].observation),
           risk_level |-> Or(e.riskLevel, db.observations[e.id].risk_level),
           image_url |-> CtlUpdateImageUrl(e, db.observations[e.id].image_url, url),
           uploaded |-> up, path |-> path,
           field |-> EntryField(db, reportId, e)]
     ELSE [id |-> NoId, report_id |-> reportId,
           observation |-> e.observation,
           risk_level |-> InsertRiskLevel(e),
           image_url |-> CtlInsertImageUrl(e, url),
           uploaded |-> up, path |-> path,
           field |-> EntryField(db, reportId, e)]

RECURSIVE CtlProcess(_, _, _, _, _, _)
CtlProcess(db, reportId, es, files, userId, n) ==
  IF es = << >> THEN << >>
  ELSE LET p == CtlProcessEntry(db, reportId, Head(es), files, userId, n)
       IN <<p>> \o CtlProcess(db, reportId, Tail(es), files, userId,
                              IF p.uploaded THEN n + 1 ELSE n)

\* the uploads of Promise.all(observationPromises)
RECURSIVE UploadAll(_, _)
UploadAll(db, ps) ==
  IF ps = << >> THEN db
  ELSE UploadAll(IF Head(ps).uploaded THEN UploadBlob(db, Head(ps).path) ELSE db,
                 Tail(ps))

\* the status of an error that is not an ApiError
InternalError == 500

\* fs.unlinkSync(file.path) after the upload: the second entry matched to the
\* same file finds it gone and throws
UnlinkThrows(ps) ==
  \E i, j \in 1..Len(ps) :
     i < j /\ ps[i].uploaded /\ ps[j].uploaded /\ ps[i].field = ps[j].field

\* observationsToUpdate / observationsToInsert
ToUpdate(ps) == SelectSeq(ps, LAMBDA p : p.id # NoId)

ToInsert(ps) == SelectSeq(ps, LAMBDA p : p.id = NoId)

\* for (const obs of observationsToUpdate) { update; if (error) throw }
RECURSIVE CtlApplyUpdates(_, _, _)
CtlApplyUpdates(db, reportId, rows) ==
  IF rows = << >> THEN [db |-> db, ok |-> TRUE]
  ELSE IF ~ObservationCheck(Head(rows))
  THEN [db |-> UpdateObservationRow(db, reportId, Head(rows)), ok |-> FALSE]
  ELSE CtlApplyUpdates(UpdateObservationRow(db, reportId, Head(rows)),
                       reportId, Tail(rows))

\* a request field sent as the empty string
Empty == ""

\* if (v): the field is neither undefined nor ''
Truthy(v) == v \notin {Undef, Empty}

\* a field of req.body; undefined when the request does not carry it
Field(body, f) == IF f \in DOMAIN body THEN body[f] ELSE Undef

\* the request fields written when truthy, and those written when present
TruthyFields == {"date", "description", "status"}

PresentFields == {"contact", "verification", "recommendations", "signature"}

\* visitConfirmation === 'true' || visitConfirmation === true; a string value
\* is written with its quotes, a boolean without
VisitConfirmed(v) == v \in {"'true'", "true"}

\* variant: an update that writes every column, supplied or not
UpdateKeys_EveryColumn(body) ==
  TruthyFields \cup PresentFields \cup {"visit_confirmation"}

\* the keys of updates: if (date) ...; if (contact !== undefined) ...;
\* if (visitConfirmation !== undefined) ...; if (status) ...
UpdateKeys(body) ==
  {f \in TruthyFields : Truthy(Field(body, f))}
  \cup {f \in PresentFields : Field(body, f) # Undef}
  \cup {f \in {"visit_confirmation"} : Field(body, "visitConfirmation") # Undef}

\* const updates = {}; updates.<column> = <value>
Updates(body) ==
  [f \in UpdateKeys(body) |->
     IF f = "visit_confirmation"
     THEN VisitConfirmed(Field(body, "visitConfirmation"))
     ELSE Field(body, f)]

\* date DATE NOT NULL: the strings the column accepts
Dates == {"d1", "d2"}

DateCheck(date) == date \in Dates

\* the update statement is rejected by the table: updateError
UpdateReportFails(body) ==
  \/ "status" \in UpdateKeys(body) /\ ~StatusCheck(Field(body, "status"))
  \/ "date" \in UpdateKeys(body) /\ ~DateCheck(Field(body, "date"))

\* UPDATE reports SET ...: the columns of updates are written, and the trigger
\* set_timestamp_reports sets updated_at; a row carries the columns that the
\* specification at hand reads
ApplyUpdates(row, u, now) ==
  [k \in DOMAIN row |->
     IF k \in DOMAIN u THEN u[k]
     ELSE IF k = "updated_at" THEN now
     ELSE row[k]]

\* .from('reports').update(updates).eq('id', reportId).eq('user_id', userId);
\* with no column in updates no row is written
UpdateReportRow(db, reportId, userId, r) ==
  IF /\ UpdateKeys(r.body) # {}
     /\ ~UpdateReportFails(r.body)
     /\ OwnsReport(db, reportId, userId)
  THEN [db EXCEPT !.reports[reportId] = ApplyUpdates(@, Updates(r.body), r.now)]
  ELSE db

\* the observation part of the controller's updateReport
CtlUpdateObservations(db, reportId, userId, es, files) ==
  LET ps  == CtlProcess(db, reportId, es, files, userId, Len(db.uploads))
      db1 == UploadAll(db, ps)
      upd == CtlApplyUpdates(db1, reportId, ToUpdate(ps))
  IN IF UnlinkThrows(ps) THEN [db |-> db1, status |-> InternalError]
     ELSE IF ~upd.ok THEN [db |-> upd.db, status |-> 400]
     ELSE IF InsertFails(ToInsert(ps))
     THEN [db |-> InsertObservations(upd.db, ToInsert(ps)), status |-> 400]
     ELSE [db |-> InsertObservations(upd.db, ToInsert(ps)), status |-> 200]

\* updateReport (controller): the state after the call and the response status
CtlUpdateReportResult(db, r) ==
  IF ~OwnsReport(db, r.reportId, r.userId) THEN ApiError(db, 404, "Report not found")
  ELSE IF UpdateReportFails(r.body) THEN [db |-> db, status |-> 400]
  ELSE LET db1 == UpdateReportRow(db, r.reportId, r.userId, r)
       IN IF Len(r.observations) > 0
          THEN CtlUpdateObservations(db1, r.reportId, r.userId, r.observations, r.files)
          ELSE [db |-> db1, status |-> 200]

(* ----------------------- updateReport: the service ---------------------- *)

\* variant: the update that keeps only a newly uploaded image
SvcUpdateImageUrl_UploadOnly(e, stored, uploadedUrl) == uploadedUrl

\* service, update path: let imageUrl = obs.imageUrl || existing.image_url,
\* replaced by the uploaded URL
SvcUpdateImageUrl(e, stored, uploadedUrl) ==
  UrlOr(uploadedUrl, UrlOr(e.imageUrl, stored))

\* service, insert path: let imageUrl = null, replaced by the uploaded URL
SvcInsertImageUrl(e, uploadedUrl) == uploadedUrl

\* one round of `for (const obs of parsedObservations)`: upload, then write;
\* the result of the write is not inspected.  snap is the state existingObsMap
\* was read from.
SvcApplyEntry(db, snap, reportId, e, files, userId) ==
  LET up   == EntryUploads(snap, reportId, e, files)
      path == StoragePath(userId, Len(db.uploads) + 1)
      db1  == IF up THEN UploadBlob(db, path) ELSE db
      url  == IF up THEN PublicUrl(path) ELSE NoUrl
  IN IF IsExistingEntry(snap, reportId, e)
     THEN UpdateObservationRow(db1, reportId,
            [id |-> e.id,
             observation |-> Or(e.observation, snap.observations[e.id].observation),
             risk_level |-> Or(e.riskLevel, snap.observations[e.id].risk_level),
             image_url |-> SvcUpdateImageUrl(e, snap.observations[e.id].image_url, url)])
     ELSE InsertObservations(db1,
            <<[report_id |-> reportId,
               observation |-> e.observation,
               risk_level |-> InsertRiskLevel(e),
               image_url |-> SvcInsertImageUrl(e, url)]>>)

RECURSIVE SvcApplyEntries(_, _, _, _, _, _)
SvcApplyEntries(db, snap, reportId, es, files, userId) ==
  IF es = << >> THEN db
  ELSE SvcApplyEntries(SvcApplyEntry(db, snap, reportId, Head(es), files, userId),
                       snap, reportId, Tail(es), files, userId)

\* variant: a deletion loop that removes the named row of any report
SvcDeleteOne_AnyReport(db, snap, reportId, obsId) ==
  IF obsId \in DOMAIN snap.observations
  THEN [db EXCEPT !.observations = [i \in DOMAIN @ \ {obsId} |-> @[i]]]
  ELSE db

\* variant: a deletion loop that keeps the row when deleteImage answers false
SvcDeleteOne_KeepRowOnFailure(db, snap, reportId, obsId) ==
  IF obsId \in ExistingObsMap(snap, reportId)
  THEN IF db.removeFails /\ snap.observations[obsId].image_url # NoUrl
       THEN db
       ELSE DeleteObservationRow(
              DeleteImage(db, snap.observations[obsId].image_url), reportId, obsId)
  ELSE db

\* for (const obsId of observationsToDelete) if (existingObsMap[obsId]) {...}
SvcDeleteOne(db, snap, reportId, obsId) ==
  IF obsId \in ExistingObsMap(snap, reportId)
  THEN DeleteObservationRow(
         DeleteImage(db, snap.observations[obsId].image_url), reportId, obsId)
  ELSE db

RECURSIVE SvcApplyDeletions(_, _, _, _)
SvcApplyDeletions(db, snap, reportId, ids) ==
  IF ids = << >> THEN db
  ELSE SvcApplyDeletions(SvcDeleteOne(db, snap, reportId, Head(ids)),
                         snap, reportId, Tail(ids))

\* the block `if (observations && observations.length > 0) { ... }`, which
\* holds the deletions too
SvcUpdateObservations(db, reportId, userId, es, files, ids) ==
  IF Len(es) > 0
  THEN SvcApplyDeletions(SvcApplyEntries(db, db, reportId, es, files, userId),
                         db, reportId, ids)
  ELSE db

\* updateReport (service)
SvcUpdateReportResult(db, r) ==
  IF ~OwnsReport(db, r.reportId, r.userId) THEN ApiError(db, 404, "Report not found")
  ELSE IF UpdateReportFails(r.body) THEN [db |-> db, status |-> 400]
  ELSE [db |-> SvcUpdateObservations(
                 UpdateReportRow(db, r.reportId, r.userId, r),
                 r.reportId, r.userId, r.observations, r.files,
                 r.observationsToDelete),
        status |-> 200]

(* ------------------------------ deleteReport ---------------------------- *)

\* the image_url of the report's observations, in id order
RECURSIVE ImageUrlsOf(_, _)
ImageUrlsOf(db, ids) ==
  IF ids = {} THEN << >>
  ELSE LET i == CHOOSE j \in ids : \A k \in ids : j <= k
       IN <<db.observations[i].image_url>> \o ImageUrlsOf(db, ids \ {i})

\* controller: imagePaths = urls.filter(u => u).map(u => pathname.split('/').pop());
\* storage.remove(imagePaths)
RECURSIVE CtlRemoveImages(_, _)
CtlRemoveImages(db, urls) ==
  IF urls = << >> THEN db
  ELSE CtlRemoveImages(IF Head(urls) # NoUrl
                       THEN RemoveBlob(db, LastSegment(Head(urls)))
                       ELSE db, Tail(urls))

\* service: for (const obs of report.observations) if (obs.image_url) deleteImage
RECURSIVE SvcRemoveImages(_, _)
SvcRemoveImages(db, urls) ==
  IF urls = << >> THEN db
  ELSE SvcRemoveImages(DeleteImage(db, Head(urls)), Tail(urls))

\* deleteReport (controller)
CtlDeleteReportResult(db, r) ==
  IF ~OwnsReport(db, r.reportId, r.userId) THEN ApiError(db, 404, "Report not found")
  ELSE [db |-> CtlRemoveImages(DeleteReportRow(db, r.reportId, r.userId),
                 ImageUrlsOf(db, ExistingObsMap(db, r.reportId))),
        status |-> 200]

\* deleteReport (service)
SvcDeleteReportResult(db, r) ==
  IF ~OwnsReport(db, r.reportId, r.userId) THEN ApiError(db, 404, "Report not found")
  ELSE [db |-> SvcRemoveImages(DeleteReportRow(db, r.reportId, r.userId),
                 ImageUrlsOf(db, ExistingObsMap(db, r.reportId))),
        status |-> 200]

(* -------------------------------- getReport ----------------------------- *)

\* getReport (controller): the report with its observations, for its creator
GetReportResult(db, r) ==
  IF ~OwnsReport(db, r.reportId, r.userId) THEN ApiError(db, 404, "Report not found")
  ELSE [db |-> db, status |-> 200]

(* ------------------------------ createReport ---------------------------- *)

\* .from('companies').select('*').eq('id', companyId).eq('user_id', userId):
\* the company exists and is one of the user's.  The migration moves the
\* (company, user_id) pairs of companies into user_companies, so the filter is
\* read over that relation.
CompanyOfUser(companyId, userId) ==
  companyId \in DOMAIN companies /\ <<userId, companyId>> \in userCompanies

\* .from('reports').insert(newReport).select().single()
InsertReport(db, userId, companyId, status) ==
  [db EXCEPT
     !.reports = [i \in DOMAIN @ \cup {db.nextReport} |->
        IF i = db.nextReport
        THEN [user_id |-> userId, company_id |-> companyId, status |-> status]
        ELSE @[i]],
     !.nextReport = @ + 1]

\* status = 'draft' by default
CreateStatus(body) == Or(body.status, "draft")

\* observations.map(async (obs, index) => ...): the file at the entry's index,
\* if any, is uploaded and its URL stored
RECURSIVE CreateRows(_, _, _, _, _, _)
CreateRows(reportId, userId, es, index, nFiles, n) ==
  IF es = << >> THEN << >>
  ELSE LET up   == index <= nFiles
           path == IF up THEN StoragePath(userId, n + 1) ELSE << >>
       IN <<[id |-> NoId, report_id |-> reportId,
             observation |-> Head(es).observation,
             risk_level |-> InsertRiskLevel(Head(es)),
             image_url |-> IF up THEN PublicUrl(path) ELSE NoUrl,
             uploaded |-> up, path |-> path, field |-> ImagesField]>>
          \o CreateRows(reportId, userId, Tail(es), index + 1, nFiles,
                        IF up THEN n + 1 ELSE n)

\* the uploads of Promise.all(observationPromises) when the n-th of them is
\* rejected: the other uploads are under way and are stored
RECURSIVE UploadAllBut(_, _, _)
UploadAllBut(db, ps, n) ==
  IF ps = << >> THEN db
  ELSE IF ~Head(ps).uploaded THEN UploadAllBut(db, Tail(ps), n)
  ELSE IF n = 1 THEN UploadAllBut(UploadRejected(db, Head(ps).path), Tail(ps), 0)
  ELSE UploadAllBut(UploadBlob(db, Head(ps).path), Tail(ps), n - 1)

\* the number of files a create request has an observation for
CreateUploads(r) == Cardinality({i \in 1..Len(r.observations) : i <= r.nFiles})

\* variant: a createReport that undoes its writes when a later step fails
CreateReportRows_RollsBack(db, r) ==
  IF ~StatusCheck(CreateStatus(r.body)) THEN [db |-> db, status |-> 400]
  ELSE LET db1  == InsertReport(db, r.userId, r.companyId, CreateStatus(r.body))
           rows == CreateRows(db.nextReport, r.userId, r.observations, 1,
                              r.nFiles, Len(db.uploads))
           db2  == UploadAll(db1, rows)
       IN IF db.uploadFails # NoId THEN [db |-> db, status |-> InternalError]
          ELSE IF InsertFails(rows) THEN [db |-> db, status |-> 400]
          ELSE [db |-> InsertObservations(db2, rows), status |-> 201]

\* the part of createReport after the company was found
CreateReportRows(db, r) ==
  IF ~StatusCheck(CreateStatus(r.body)) THEN [db |-> db, status |-> 400]
  ELSE LET db1  == InsertReport(db, r.userId, r.companyId, CreateStatus(r.body))
           rows == CreateRows(db.nextReport, r.userId, r.observations, 1,
                              r.nFiles, Len(db.uploads))
           db2  == UploadAll(db1, rows)
       IN IF db.uploadFails # NoId
          THEN [db |-> UploadAllBut(db1, rows, db.uploadFails),
                status |-> InternalError]
          ELSE IF InsertFails(rows)
          THEN [db |-> InsertObservations(db2, rows), status |-> 400]
          ELSE [db |-> InsertObservations(db2, rows), status |-> 201]

\* createReport (controller)
CtlCreateReportResult(db, r) ==
  IF r.companyId = NoId THEN [db |-> db, status |-> 400]
  ELSE IF ~CompanyOfUser(r.companyId, r.userId) THEN ApiError(db, 404, "Company not found")
  ELSE CreateReportRows(db, r)

\* createReport (service)
SvcCreateReportResult(db, r) ==
  IF ~CompanyOfUser(r.companyId, r.userId) THEN ApiError(db, 404, "Company not found")
  ELSE CreateReportRows(db, r)

(* ----------------------- temporary upload files ------------------------- *)

\* multer writes every uploaded file to uploads/; a file of an update request
\* is named by its multipart field, a file of a create request by its position
UpdateTempFiles(r) == r.files

CreateTempFiles(r) == 1..r.nFiles

\* updateReport (controller): the map callbacks unlink the files they matched;
\* the catch block unlinks every file that still exists
CtlUpdateLeftover(db, r, status) ==
  IF status # 200 THEN {}
  ELSE UpdateTempFiles(r) \
         {EntryField(db, r.reportId, r.observations[k]) :
            k \in {j \in 1..Len(r.observations) :
                     EntryUploads(db, r.reportId, r.observations[j], r.files)}}

\* createReport (controller): the map callbacks unlink req.files[index] for the
\* indexes of the observations; the catch block unlinks what still exists
CtlCreateLeftover(r, status) ==
  IF status # 201 THEN {}
  ELSE {i \in CreateTempFiles(r) : i > Len(r.observations)}

\* the service reads the files (uploadImageFromPath) and unlinks none
SvcUpdateLeftover(r) == UpdateTempFiles(r)

SvcCreateLeftover(r) == CreateTempFiles(r)

\* the outcome of a handler together with the temporary files it leaves
WithTmp(res, tmp) ==
  [k \in DOMAIN res \cup {"tmp"} |-> IF k = "tmp" THEN tmp ELSE res[k]]

CtlCreateReportOutcome(db, r) ==
  LET res == CtlCreateReportResult(db, r)
  IN WithTmp(res, CtlCreateLeftover(r, res.status))

SvcCreateReportOutcome(db, r) ==
  WithTmp(SvcCreateReportResult(db, r), SvcCreateLeftover(r))

CtlUpdateReportOutcome(db, r) ==
  LET res == CtlUpdateReportResult(db, r)
  IN WithTmp(res, CtlUpdateLeftover(db, r, res.status))

SvcUpdateReportOutcome(db, r) ==
  WithTmp(SvcUpdateReportResult(db, r), SvcUpdateLeftover(r))

(* ------------------------- PUT /api/reports/:id -------------------------- *)

\* upload.array('images'): multer accepts files of the field 'images' only and
\* passes an error for a file of any other field, removing what it had written
MulterAccepts(files) == files \subseteq {ImagesField}

\* router.put('/:id', upload.array('images'), reportController.updateReport)
PutReportResult(db, r) ==
  IF MulterAccepts(r.files)
  THEN CtlUpdateReportOutcome(db, r)
  ELSE WithTmp([db |-> db, status |-> InternalError, error |-> "Unexpected field"],
               {})

(* ------------------------------- requests ------------------------------- *)

NoBody == [status |-> Undef]

NoCompany == [name |-> Undef, cuit |-> Undef, address |-> Undef, industry |-> Undef]

NoReq == [op |-> "none", impl |-> "none", userId |-> "none", reportId |-> NoId,
          companyId |-> NoId, body |-> NoBody, observations |-> << >>,
          files |-> {}, nFiles |-> 0, observationsToDelete |-> << >>,
          company |-> NoCompany, uploadFails |-> NoId, now |-> "t0"]

NoResp == [status |-> 0, pre |-> << >>]

Entry(id, text, risk, url, newImage, tempId) ==
  [id |-> id, observation |-> text, riskLevel |-> risk, imageUrl |-> url,
   newImage |-> newImage, tempId |-> tempId]

ObsIds == 1..MaxObs

Lists(S, lo, hi) == UNION {[1..k -> S] : k \in lo..hi}

\* the image URLs a client can know: those of the uploads made so far
KnownUrls == {PublicUrl(uploads[k]) : k \in 1..Len(uploads)}

\* entries that edit text and risk level
ContentEntries ==
  {Entry(id, t, rl, NoUrl, FALSE, NoId) :
     id \in {NoId} \cup ObsIds, t \in {Undef, "a"},
     rl \in {Undef, "low", "high", "bogus"}}

\* entries that touch the image: a supplied URL, a new-image flag, a temp id
ImageEntries ==
  {Entry(id, Undef, Undef, url, ni, NoId) :
     id \in ObsIds, url \in {NoUrl} \cup KnownUrls, ni \in BOOLEAN}
  \cup
  {Entry(NoId, "a", Undef, url, FALSE, t) :
     url \in {NoUrl} \cup KnownUrls, t \in {NoId, 1}}

\* the entries lists of two or more are built from
PairEntries ==
  {Entry(id, c[1], c[2], NoUrl, FALSE, NoId) :
     id \in {NoId} \cup ObsIds, c \in {<<"a", "high">>, <<Undef, Undef>>}}

\* lists of entries that name one observation, or share one temp id
SameIdLists ==
  UNION {
    {l \in Lists({Entry(id, Undef, Undef, url, ni, NoId) :
                    url \in {NoUrl} \cup KnownUrls, ni \in BOOLEAN},
                 2, MaxEntries) : l[1].imageUrl = NoUrl} : id \in ObsIds}
  \cup Lists({Entry(NoId, "a", Undef, NoUrl, FALSE, 1)}, 2, MaxEntries)

\* the uploaded files of an update request, by field name
AllFields == {ImageField(id) : id \in ObsIds} \cup {ImageNewField(1)}

FileSets == {{}, AllFields, {ImagesField}}

DelLists == Lists(ObsIds, 0, MaxDels)

UpdateReq(impl, u, rid, status, es, files, ids) ==
  [NoReq EXCEPT !.op = "update", !.impl = impl, !.userId = u, !.reportId = rid,
                !.body = [status |-> status], !.observations = es,
                !.files = files, !.observationsToDelete = ids]

\* update requests explored on a report that is not the caller's
OtherShapes ==
  {<<st, es, fs, ids>> :
     st \in {Undef, "finalized"}, es \in Lists(PairEntries, 0, 1),
     fs \in {AllFields}, ids \in DelLists}

\* update requests explored on the caller's own report
OwnShapes ==
  {<<Undef, es, {}, << >> >> : es \in Lists(ContentEntries, 0, 1)}
  \cup {<<Undef, es, fs, << >> >> : es \in Lists(ImageEntries, 1, 1), fs \in FileSets}
  \cup {<<Undef, es, {}, << >> >> : es \in Lists(PairEntries, 2, MaxEntries)}
  \cup {<<Undef, es, fs, << >> >> : es \in SameIdLists, fs \in {{}, AllFields}}
  \cup {<<Undef, es, {}, ids>> :
          es \in Lists(PairEntries, 0, 1), ids \in DelLists \ {<< >>}}
  \cup {<<"finalized", << >>, {}, << >> >>}
  \cup {<<"bogus", es, {}, << >> >> : es \in Lists(PairEntries, 0, 1)}

UpdateShapes(rid, u) ==
  IF rid \in DOMAIN reports /\ reports[rid].user_id = u
  THEN OwnShapes ELSE OtherShapes

\* rows and uploads a request may add stay within the model's bounds
InsertCount(db, rid, es) ==
  Cardinality({k \in 1..Len(es) : ~IsExistingEntry(db, rid, es[k])})

UploadCount(db, rid, es, files) ==
  Cardinality({k \in 1..Len(es) : EntryUploads(db, rid, es[k], files)})

\* a request is explored when the rows and uploads it adds fit the bounds
FitsBounds(rid, x) ==
  /\ nextObs - 1 + InsertCount(Db, rid, x[2]) <= MaxObs
  /\ Len(uploads) + UploadCount(Db, rid, x[2], x[3]) <= MaxFiles

UpdateRequests ==
  UNION {{UpdateReq(impl, ur[1], ur[2], s[1], s[2], s[3], s[4]) :
            impl \in {"ctl", "svc"},
            s \in {x \in UpdateShapes(ur[2], ur[1]) : FitsBounds(ur[2], x)}} :
         ur \in Users \X (1..MaxReports)}

\* requests sent to the route PUT /api/reports/:id: one entry that touches the
\* image, with each set of files
RouteShapes ==
  {<<Undef, es, fs, << >> >> : es \in Lists(ImageEntries, 1, 1), fs \in FileSets}

PutRequests ==
  UNION {{[UpdateReq("route", ur[1], ur[2], s[1], s[2], s[3], s[4])
             EXCEPT !.op = "put"] :
            s \in {x \in RouteShapes : FitsBounds(ur[2], x)}} :
         ur \in Users \X (1..MaxReports)}

CreateEntries ==
  {Entry(NoId, t, rl, NoUrl, FALSE, NoId) :
     t \in {Undef, "a"}, rl \in {Undef, "high", "bogus"}}

\* the requests explored create reports as u1; u2 is the other caller
Creators == {"u1"}

\* the shapes of create request explored: <<companyId, status, entries, files>>
CreateShapes ==
  {<<1, Undef, es, n>> :
     es \in Lists(CreateEntries, 0, MaxEntries), n \in 0..MaxEntries}
  \cup {<<c, st, es, 1>> :
          c \in {NoId} \cup (1..MaxCompanies), st \in {Undef, "bogus"},
          es \in Lists({Entry(NoId, "a", Undef, NoUrl, FALSE, NoId)}, 0, 1)}

CreateRequests ==
  {[NoReq EXCEPT !.op = "create", !.impl = impl, !.userId = u,
                 !.companyId = s[1], !.body = [status |-> s[2]],
                 !.observations = s[3], !.nFiles = s[4]] :
     impl \in {"ctl", "svc"}, u \in Creators,
     s \in {x \in CreateShapes :
              /\ nextObs - 1 + Len(x[3]) <= MaxObs
              /\ Len(uploads) + x[4] <= MaxFiles}}

DeleteRequests ==
  {[NoReq EXCEPT !.op = "delete", !.impl = impl, !.userId = u, !.reportId = rid] :
     impl \in {"ctl", "svc"}, u \in Users, rid \in 1..MaxReports}

GetRequests ==
  {[NoReq EXCEPT !.op = "get", !.impl = "ctl", !.userId = u, !.reportId = rid] :
     u \in Users, rid \in 1..MaxReports}

(* ------------------------------- actions -------------------------------- *)

Idle == req.op = "none"

Pending(op, impl) == req.op = op /\ req.impl = impl /\ resp.status = 0

Store(db) ==
  /\ reports' = db.reports
  /\ observations' = db.observations
  /\ blobs' = db.blobs
  /\ uploads' = db.uploads
  /\ nextReport' = db.nextReport
  /\ nextObs' = db.nextObs

Reply(res) ==
  /\ Store(res.db)
  /\ resp' = [status |-> res.status, pre |-> Db,
              error |-> IF "error" \in DOMAIN res THEN res.error ELSE "",
              tmp |-> IF "tmp" \in DOMAIN res THEN res.tmp ELSE {},
              removeFails |-> "removeFails" \in DOMAIN res.db /\ res.db.removeFails,
              removed |-> IF "removed" \in DOMAIN res.db THEN res.db.removed ELSE {},
              log |-> IF "log" \in DOMAIN res.db THEN res.db.log ELSE << >>]
  /\ UNCHANGED <<companies, userCompanies, nextCompany, req>>

ReceiveReport ==
  /\ Idle
  /\ \E r \in UpdateRequests \cup PutRequests \cup DeleteRequests \cup GetRequests \cup
              {c \in CreateRequests : nextReport <= MaxReports} : req' = r
  /\ UNCHANGED <<reports, observations, blobs, uploads, nextReport, nextObs,
                 companies, userCompanies, nextCompany, resp>>

CtlCreateReport ==
  /\ Pending("create", "ctl")
  /\ Reply(CtlCreateReportOutcome(FailingUpload(Storage(Db, FALSE), req.uploadFails), req))

SvcCreateReport ==
  /\ Pending("create", "svc")
  /\ Reply(SvcCreateReportOutcome(FailingUpload(Storage(Db, FALSE), req.uploadFails), req))

CtlUpdateReport == Pending("update", "ctl") /\ Reply(CtlUpdateReportOutcome(Storage(Db, FALSE), req))

SvcUpdateReport ==
  /\ Pending("update", "svc")
  /\ \E f \in BOOLEAN : Reply(SvcUpdateReportOutcome(Storage(Db, f), req))

PutReport == Pending("put", "route") /\ Reply(PutReportResult(Storage(Db, FALSE), req))

CtlGetReport == Pending("get", "ctl") /\ Reply(GetReportResult(Storage(Db, FALSE), req))

CtlDeleteReport ==
  /\ Pending("delete", "ctl")
  /\ \E f \in BOOLEAN : Reply(CtlDeleteReportResult(Storage(Db, f), req))

SvcDeleteReport ==
  /\ Pending("delete", "svc")
  /\ \E f \in BOOLEAN : Reply(SvcDeleteReportResult(Storage(Db, f), req))

Respond ==
  /\ req.op # "none" /\ resp.status # 0
  /\ req' = NoReq
  /\ resp' = NoResp
  /\ UNCHANGED <<reports, observations, blobs, uploads, nextReport, nextObs,
                 companies, userCompanies, nextCompany>>

\* the reports are created for one stored company that every user is
\* associated with
SeedCompany == [name |-> "n1", cuit |-> "c1", address |-> "a1", industry |-> "i1"]

Init ==
  /\ reports = << >>
  /\ observations = << >>
  /\ blobs = {}
  /\ uploads = << >>
  /\ nextReport = 1
  /\ nextObs = 1
  /\ companies = <<SeedCompany>>
  /\ userCompanies = {<<u, 1>> : u \in Users}
  /\ nextCompany = 2
  /\ req = NoReq
  /\ resp = NoResp

Next ==
  \/ ReceiveReport
  \/ CtlCreateReport
  \/ SvcCreateReport
  \/ CtlUpdateReport
  \/ SvcUpdateReport
  \/ PutReport
  \/ CtlGetReport
  \/ CtlDeleteReport
  \/ SvcDeleteReport
  \/ Respond

Spec == Init /\ [][Next]_vars

(* --------------------------- companyController -------------------------- *)

CompanyDb == [companies |-> companies, userCompanies |-> userCompanies,
              nextCompany |-> nextCompany]

\* a request value that is missing or empty: !name, !cuit, ...
Falsy(v) == v = Undef

\* .from('companies').select('*').eq('cuit', cuit).single()
CompanyByCuit(cdb, cuit) == {i \in DOMAIN cdb.companies : cdb.companies[i].cuit = cuit}

\* variant: the lookup without the join on the acting user's associations
AssociatedCompany_AnyUser(cdb, companyId, userId) == companyId \in DOMAIN cdb.companies

\* companies joined with user_companies!inner on the acting user
AssociatedCompany(cdb, companyId, userId) ==
  companyId \in DOMAIN cdb.companies /\ <<userId, companyId>> \in cdb.userCompanies

\* insert into companies; the id is generated by the store
InsertCompany(cdb, row) ==
  [cdb EXCEPT !.companies = Append(cdb.companies, row),
              !.nextCompany = cdb.nextCompany + 1]

\* PRIMARY KEY (user_id, company_id) of user_companies
AssociationConflict(cdb, userId, companyId) == <<userId, companyId>> \in cdb.userCompanies

InsertAssociation(cdb, userId, companyId) ==
  [cdb EXCEPT !.userCompanies = cdb.userCompanies \cup {<<userId, companyId>>}]

CompanyResult(cdb, status, data) ==
  [db |-> cdb, status |-> status, data |-> data, error |-> ""]

\* throw new ApiError(status, message) in a company handler
CompanyError(cdb, status, message) ==
  [db |-> cdb, status |-> status, data |-> << >>, error |-> message]

CreateCompanyResult(cdb, r) ==
  LET c == r.company IN
  IF Falsy(c.name) \/ Falsy(c.cuit) \/ Falsy(c.address) \/ Falsy(c.industry)
  THEN CompanyResult(cdb, 400, << >>)
  ELSE
    LET found == CompanyByCuit(cdb, c.cuit)
        db1   == IF found # {} THEN cdb ELSE InsertCompany(cdb, c)
        id    == IF found # {} THEN CHOOSE i \in found : TRUE ELSE cdb.nextCompany
    IN IF AssociationConflict(db1, r.userId, id)
       THEN CompanyResult(db1, 400, << >>)
       ELSE CompanyResult(InsertAssociation(db1, r.userId, id), 201,
                          [id |-> id, row |-> db1.companies[id]])

\* if (name) updates.name = name; ... for the four columns
CompanyUpdates(old, c) ==
  [name     |-> Or(c.name, old.name),
   cuit     |-> Or(c.cuit, old.cuit),
   address  |-> Or(c.address, old.address),
   industry |-> Or(c.industry, old.industry)]

\* companies_cuit_unique
CuitConflict(cdb, companyId, row) ==
  \E i \in DOMAIN cdb.companies : i # companyId /\ cdb.companies[i].cuit = row.cuit

\* the set of outcomes: an update that sets no column changes no row, and
\* whether the store then reports the row or an error is left open
UpdateCompanyResults(cdb, r) ==
  IF ~AssociatedCompany(cdb, r.companyId, r.userId)
  THEN {CompanyError(cdb, 404, "Company not found")}
  ELSE
    LET old == cdb.companies[r.companyId]
        row == CompanyUpdates(old, r.company)
    IN IF r.company = NoCompany
       THEN {CompanyResult(cdb, 200, [id |-> r.companyId, row |-> old]),
             CompanyResult(cdb, 400, << >>)}
       ELSE IF CuitConflict(cdb, r.companyId, row)
       THEN {CompanyResult(cdb, 400, << >>)}
       ELSE {CompanyResult([cdb EXCEPT !.companies[r.companyId] = row], 200,
                           [id |-> r.companyId, row |-> row])}

\* variant: the delete without the .eq('user_id', userId) filter
RemoveCompanyAssociationResult_AllUsers(cdb, r) ==
  CompanyResult([cdb EXCEPT !.userCompanies =
                   {uc \in @ : uc[2] # r.companyId}], 200, << >>)

\* removeCompanyAssociation: delete from user_companies where company_id and
\* user_id match; no table references user_companies
RemoveCompanyAssociationResult(cdb, r) ==
  CompanyResult([cdb EXCEPT !.userCompanies = @ \ {<<r.userId, r.companyId>>}],
                200, << >>)

GetCompanyResult(cdb, r) ==
  IF AssociatedCompany(cdb, r.companyId, r.userId)
  THEN CompanyResult(cdb, 200, [id |-> r.companyId, row |-> cdb.companies[r.companyId]])
  ELSE CompanyError(cdb, 404, "Company not found")

Names == {"n1", "n2"}
Cuits == {"c1", "c2"}
Addresses == {"a1", "a2"}
Industries == {"i1", "i2"}

CompanyBodies ==
  [name : Names \cup {Undef}, cuit : Cuits \cup {Undef},
   address : Addresses \cup {Undef}, industry : Industries \cup {Undef}]

CompanyReq(op, u, id, c) ==
  [NoReq EXCEPT !.op = op, !.impl = "ctl", !.userId = u, !.companyId = id,
                !.company = c]

CreateCompanyRequests ==
  {CompanyReq("createCompany", u, NoId, c) : u \in Users, c \in CompanyBodies}

UpdateCompanyRequests ==
  {CompanyReq("updateCompany", x[1], x[2], c) :
     x \in Users \X (1..MaxCompanies), c \in CompanyBodies}

CompanyIdRequests ==
  {CompanyReq(x[1], x[2], x[3], NoCompany) :
     x \in {"getCompany", "removeCompanyAssociation"} \X Users \X (1..MaxCompanies)}

\* the store has room for the row a createCompany request may insert
CompanyFits(r) ==
  r.op = "createCompany" /\ CompanyByCuit(CompanyDb, r.company.cuit) = {}
    => nextCompany <= MaxCompanies

ReceiveCompany ==
  /\ Idle
  /\ \E r \in CreateCompanyRequests \cup UpdateCompanyRequests \cup CompanyIdRequests :
       CompanyFits(r) /\ req' = r
  /\ UNCHANGED <<reports, observations, blobs, uploads, nextReport, nextObs,
                 companies, userCompanies, nextCompany, resp>>

\* the tables as they are before a company handler runs
CompanyPre ==
  [companies |-> companies, userCompanies |-> userCompanies,
   nextCompany |-> nextCompany, reports |-> reports,
   observations |-> observations]

ReplyCompany(res) ==
  /\ companies' = res.db.companies
  /\ userCompanies' = res.db.userCompanies
  /\ nextCompany' = res.db.nextCompany
  /\ resp' = [status |-> res.status, pre |-> CompanyPre, data |-> res.data,
              error |-> res.error]
  /\ UNCHANGED <<reports, observations, blobs, uploads, nextReport, nextObs, req>>

CreateCompany ==
  Pending("createCompany", "ctl") /\ ReplyCompany(CreateCompanyResult(CompanyDb, req))

UpdateCompany ==
  /\ Pending("updateCompany", "ctl")
  /\ \E res \in UpdateCompanyResults(CompanyDb, req) : ReplyCompany(res)

RemoveCompanyAssociation ==
  /\ Pending("removeCompanyAssociation", "ctl")
  /\ ReplyCompany(RemoveCompanyAssociationResult(CompanyDb, req))

GetCompany ==
  Pending("getCompany", "ctl") /\ ReplyCompany(GetCompanyResult(CompanyDb, req))

InitCompany ==
  /\ reports = << >>
  /\ observations = << >>
  /\ blobs = {}
  /\ uploads = << >>
  /\ nextReport = 1
  /\ nextObs = 1
  /\ companies = << >>
  /\ userCompanies = {}
  /\ nextCompany = 1
  /\ req = NoReq
  /\ resp = NoResp

NextCompany ==
  \/ ReceiveCompany
  \/ CreateCompany
  \/ UpdateCompany
  \/ RemoveCompanyAssociation
  \/ GetCompany
  \/ Respond

SpecCompany == InitCompany /\ [][NextCompany]_vars

(* ------------------- two createCompany calls at a time ------------------ *)

\* ADD CONSTRAINT companies_cuit_unique UNIQUE (cuit): the insert is rejected
\* when a stored company has the tax id
CuitTaken(cdb, cuit) == CompanyByCuit(cdb, cuit) # {}

\* the bodies of the two calls: complete, with a name and a tax id each
RaceBodies ==
  {[name |-> n, cuit |-> c, address |-> "a1", industry |-> "i1"] :
     n \in Names, c \in Cuits}

\* one createCompany call: caller, body, where it stands, the company it
\* found or inserted, its answer
CompanyCall(u, body) ==
  [userId |-> u, company |-> body, pc |-> "start", id |-> NoId, status |-> 0]

\* the rows the two calls may insert fit the bound on the companies
RaceFits(b1, b2) ==
  nextCompany - 1
    + Cardinality({c \in {b1.cuit, b2.cuit} : ~CuitTaken(CompanyDb, c)})
    <= MaxCompanies

\* two different users call createCompany at the same time
RaceRequests ==
  {[op |-> "createPair", impl |-> "ctl",
    calls |-> <<CompanyCall("u1", b[1]), CompanyCall("u2", b[2])>>,
    pre |-> CompanyDb] :
     b \in {x \in RaceBodies \X RaceBodies : RaceFits(x[1], x[2])}}

ReceiveRace ==
  /\ Idle
  /\ \E r \in RaceRequests : req' = r
  /\ UNCHANGED <<reports, observations, blobs, uploads, nextReport, nextObs,
                 companies, userCompanies, nextCompany, resp>>

\* .from('companies').select('*').eq('cuit', cuit).single()
SearchCompany(c) ==
  /\ req.op = "createPair" /\ req.calls[c].pc = "start"
  /\ LET found == CompanyByCuit(CompanyDb, req.calls[c].company.cuit)
     IN req' = IF found # {}
               THEN [req EXCEPT !.calls[c].pc = "found",
                                !.calls[c].id = CHOOSE i \in found : TRUE]
               ELSE [req EXCEPT !.calls[c].pc = "missing"]
  /\ UNCHANGED <<reports, observations, blobs, uploads, nextReport, nextObs,
                 companies, userCompanies, nextCompany, resp>>

\* .from('companies').insert({...}).select().single();
\* if (createError) throw new ApiError(400, ...)
InsertCompanyRow(c) ==
  /\ req.op = "createPair" /\ req.calls[c].pc = "missing"
  /\ IF CuitTaken(CompanyDb, req.calls[c].company.cuit)
     THEN /\ req' = [req EXCEPT !.calls[c].pc = "done", !.calls[c].status = 400]
          /\ UNCHANGED <<companies, nextCompany>>
     ELSE /\ companies' = InsertCompany(CompanyDb, req.calls[c].company).companies
          /\ nextCompany' = nextCompany + 1
          /\ req' = [req EXCEPT !.calls[c].pc = "found",
                                !.calls[c].id = nextCompany]
  /\ UNCHANGED <<reports, observations, blobs, uploads, nextReport, nextObs,
                 userCompanies, resp>>

\* .from('user_companies').insert({ user_id, company_id });
\* if (associationError) throw new ApiError(400, ...); res.status(201)
AssociateCompany(c) ==
  /\ req.op = "createPair" /\ req.calls[c].pc = "found"
  /\ LET call == req.calls[c]
     IN IF AssociationConflict(CompanyDb, call.userId, call.id)
        THEN /\ req' = [req EXCEPT !.calls[c].pc = "done", !.calls[c].status = 400]
             /\ UNCHANGED userCompanies
        ELSE /\ userCompanies' =
                  InsertAssociation(CompanyDb, call.userId, call.id).userCompanies
             /\ req' = [req EXCEPT !.calls[c].pc = "done", !.calls[c].status = 201]
  /\ UNCHANGED <<reports, observations, blobs, uploads, nextReport, nextObs,
                 companies, nextCompany, resp>>

\* both calls have answered
FinishRace ==
  /\ req.op = "createPair" /\ resp.status = 0
  /\ \A c \in 1..2 : req.calls[c].pc = "done"
  /\ resp' = [status |-> IF \A c \in 1..2 : req.calls[c].status = 201
                         THEN 201 ELSE 400,
              pre |-> req.pre]
  /\ UNCHANGED <<reports, observations, blobs, uploads, nextReport, nextObs,
                 companies, userCompanies, nextCompany, req>>

NextRace ==
  \/ ReceiveRace
  \/ \E c \in 1..2 : SearchCompany(c)
  \/ \E c \in 1..2 : InsertCompanyRow(c)
  \/ \E c \in 1..2 : AssociateCompany(c)
  \/ FinishRace
  \/ Respond

SpecRace == InitCompany /\ [][NextRace]_vars

(* ---------------- associations of companies that have reports ----------- *)

\* POST /api/reports and DELETE /api/companies/:id on the seeded store
AssociationRequests ==
  {c \in CreateRequests : c.impl = "ctl" /\ nextReport <= MaxReports}
  \cup {r \in CompanyIdRequests : r.op = "removeCompanyAssociation"}

ReceiveAssociation ==
  /\ Idle
  /\ \E r \in AssociationRequests : req' = r
  /\ UNCHANGED <<reports, observations, blobs, uploads, nextReport, nextObs,
                 companies, userCompanies, nextCompany, resp>>

NextAssociation ==
  \/ ReceiveAssociation
  \/ CtlCreateReport
  \/ RemoveCompanyAssociation
  \/ Respond

SpecAssociation == Init /\ [][NextAssociation]_vars

(* ------------------------------ authenticate ---------------------------- *)

\* the routes of the three routers that start with router.use(authenticate)
Routes ==
  ({"companies"} \X {"GET /", "GET /:id", "POST /", "PUT /:id", "DELETE /:id"})
    \cup ({"reports"} \X {"GET /", "GET /:id", "POST /", "PUT /:id", "DELETE /:id"})
    \cup ({"pdf"} \X {"GET /:reportId"})

\* bearer tokens: two the identity provider knows, one it rejects, the empty one
Tokens == {"t1", "t2", "bad", ""}

NoUser == "none"

\* the user the identity provider holds for a token
TokenUser(token) ==
  IF token = "t1" THEN "u1" ELSE IF token = "t2" THEN "u2" ELSE NoUser

\* req.headers.authorization split at spaces; << >> when the header is missing
AuthHeaders ==
  {<< >>, <<"Bearer">>} \cup
  {<<scheme, t>> : scheme \in {"Bearer", "bearer", "Basic"}, t \in Tokens}

\* variant: any two-word header is taken for a bearer token
StartsWithBearer_AnyScheme(h) == Len(h) >= 2

\* authHeader && authHeader.startsWith('Bearer ')
StartsWithBearer(h) == Len(h) >= 2 /\ h[1] = "Bearer"

\* authHeader.split(' ')[1]
TokenOf(h) == h[2]

\* supabaseClient.auth.getUser(token): it resolves with a user, resolves with
\* an error, resolves with neither, or throws; a call can fail for any token
GetUserOutcomes(token) ==
  (IF TokenUser(token) # NoUser THEN {[kind |-> "user", user |-> TokenUser(token)]}
   ELSE {[kind |-> "error", user |-> NoUser], [kind |-> "nouser", user |-> NoUser]})
  \cup {[kind |-> "error", user |-> NoUser], [kind |-> "throws", user |-> NoUser]}

\* authenticate: the status it answers with, 0 when it calls next()
AuthenticateStatus(h, outcome) ==
  IF ~StartsWithBearer(h) THEN 401
  ELSE IF outcome.kind = "throws" THEN 500
  ELSE IF outcome.kind = "error" \/ outcome.user = NoUser THEN 401
  ELSE 0

HttpReq(route, h) ==
  [op |-> "http", route |-> route, headers |-> h, user |-> NoUser,
   provider |-> "none", stage |-> "authenticate"]

ReceiveHttp ==
  /\ Idle
  /\ \E route \in Routes, h \in AuthHeaders : req' = HttpReq(route, h)
  /\ UNCHANGED <<reports, observations, blobs, uploads, nextReport, nextObs,
                 companies, userCompanies, nextCompany, resp>>

\* router.use(authenticate)
Authenticate ==
  /\ req.op = "http" /\ req.stage = "authenticate"
  /\ \E outcome \in (IF StartsWithBearer(req.headers)
                     THEN GetUserOutcomes(TokenOf(req.headers))
                     ELSE {[kind |-> "none", user |-> NoUser]}) :
       LET status == AuthenticateStatus(req.headers, outcome)
       IN IF status = 0
          THEN /\ req' = [req EXCEPT !.user = outcome.user,
                                     !.provider = outcome.kind,
                                     !.stage = "handler"]
               /\ resp' = resp
          ELSE /\ req' = [req EXCEPT !.provider = outcome.kind, !.stage = "done"]
               /\ resp' = [status |-> status, pre |-> << >>, handler |-> FALSE]
  /\ UNCHANGED <<reports, observations, blobs, uploads, nextReport, nextObs,
                 companies, userCompanies, nextCompany>>

\* the route's handler, reached through next(); what it answers is left open
RouteHandler ==
  /\ req.op = "http" /\ req.stage = "handler"
  /\ req' = [req EXCEPT !.stage = "done"]
  /\ \E status \in {200, 201, 400, 404} :
       resp' = [status |-> status, pre |-> << >>, handler |-> TRUE]
  /\ UNCHANGED <<reports, observations, blobs, uploads, nextReport, nextObs,
                 companies, userCompanies, nextCompany>>

NextAuth ==
  \/ ReceiveHttp
  \/ Authenticate
  \/ RouteHandler
  \/ Respond

SpecAuth == InitCompany /\ [][NextAuth]_vars

(* ------------------- two updateReport calls at a time ------------------- *)

\* the entries of two calls that edit the same observation: each call has
\* its own text, risk level and uploaded file
PairEntry(c, id) ==
  {Entry(id, t, rl, NoUrl, ni, NoId) :
     t \in {Undef, IF c = 1 THEN "b" ELSE "c"},
     rl \in {Undef, IF c = 1 THEN "high" ELSE "medium"},
     ni \in BOOLEAN}

\* one call: its entry, its files, where it stands, the observations it read
\* into existingObsMap, its answer and the path it uploaded to
Call(e) ==
  [entry |-> e, files |-> IF e.newImage THEN {ImageField(e.id)} ELSE {},
   pc |-> "start", snap |-> << >>, status |-> 0, path |-> << >>]

PairRequest(impl, u, rid, e1, e2) ==
  [op |-> "updatePair", impl |-> impl, userId |-> u, reportId |-> rid,
   calls |-> <<Call(e1), Call(e2)>>, last |-> 0]

\* the uploads of the two calls fit the bound on the uploads
PairFits(e1, e2) ==
  Len(uploads) + (IF e1.newImage THEN 1 ELSE 0) + (IF e2.newImage THEN 1 ELSE 0)
    <= MaxFiles

\* the two calls are by the report's creating user and name one of the
\* report's observations; pairs are explored on observations that still have
\* the text and risk level they were created with
ConcurrentRequests ==
  UNION {{PairRequest(p[1], reports[x[1]].user_id, x[1], p[2], p[3]) :
            p \in {q \in {"ctl", "svc"} \X PairEntry(1, x[2]) \X PairEntry(2, x[2]) :
                     PairFits(q[2], q[3])}} :
         x \in {y \in (DOMAIN reports) \X (DOMAIN observations) :
                  /\ observations[y[2]].report_id = y[1]
                  /\ observations[y[2]].observation = "a"
                  /\ observations[y[2]].risk_level = "low"}}

\* reports are created one call at a time; then two updateReport calls for
\* one observation arrive together
ReceiveConcurrent ==
  /\ Idle
  /\ \E r \in {c \in CreateRequests :
                 /\ c.impl = "ctl" /\ nextReport <= MaxReports
                 /\ c.body.status = Undef /\ Len(c.observations) > 0
                 /\ \A k \in 1..Len(c.observations) :
                      c.observations[k].riskLevel = Undef}
              \cup ConcurrentRequests : req' = r
  /\ UNCHANGED <<reports, observations, blobs, uploads, nextReport, nextObs,
                 companies, userCompanies, nextCompany, resp>>

\* a call verifies the report and reads the report's observations
\* (existingObsMap)
ReadObservations(c) ==
  /\ req.op = "updatePair" /\ req.calls[c].pc = "start"
  /\ req' = IF OwnsReport(Db, req.reportId, req.userId)
            THEN [req EXCEPT !.calls[c].pc = "read",
                             !.calls[c].snap = observations]
            ELSE [req EXCEPT !.calls[c].pc = "done", !.calls[c].status = 404]
  /\ UNCHANGED <<reports, observations, blobs, uploads, nextReport, nextObs,
                 companies, userCompanies, nextCompany, resp>>

\* controller: the entries are resolved against what the call read, the
\* files uploaded, the rows written
CtlWriteFrom(db, snap, r, call) ==
  LET ps  == CtlProcess(snap, r.reportId, <<call.entry>>, call.files, r.userId,
                        Len(db.uploads))
      db1 == UploadAll(db, ps)
      upd == CtlApplyUpdates(db1, r.reportId, ToUpdate(ps))
  IN IF ~upd.ok THEN [db |-> upd.db, status |-> 400]
     ELSE IF InsertFails(ToInsert(ps))
     THEN [db |-> InsertObservations(upd.db, ToInsert(ps)), status |-> 400]
     ELSE [db |-> InsertObservations(upd.db, ToInsert(ps)), status |-> 200]

\* service: the loop over the entries, against what the call read
SvcWriteFrom(db, snap, r, call) ==
  [db |-> SvcApplyEntries(db, snap, r.reportId, <<call.entry>>, call.files,
                          r.userId),
   status |-> 200]

\* a call uploads its file and writes its row; the upload touches the bucket
\* only and is taken together with the write that uses its URL
WriteObservations(c) ==
  /\ req.op = "updatePair" /\ req.calls[c].pc = "read"
  /\ LET snap == [observations |-> req.calls[c].snap]
         res  == IF req.impl = "ctl"
                 THEN CtlWriteFrom(Storage(Db, FALSE), snap, req, req.calls[c])
                 ELSE SvcWriteFrom(Storage(Db, FALSE), snap, req, req.calls[c])
     IN /\ Store(res.db)
        /\ req' = [req EXCEPT
                     !.calls[c].pc = "done",
                     !.calls[c].status = res.status,
                     !.calls[c].path =
                        IF Len(res.db.uploads) > Len(uploads)
                        THEN res.db.uploads[Len(res.db.uploads)] ELSE << >>,
                     !.last = c]
  /\ UNCHANGED <<companies, userCompanies, nextCompany, resp>>

\* both calls have answered
FinishPair ==
  /\ req.op = "updatePair" /\ resp.status = 0
  /\ \A c \in 1..2 : req.calls[c].pc = "done"
  /\ resp' = [status |-> IF \A c \in 1..2 : req.calls[c].status = 200
                         THEN 200 ELSE 400,
              pre |-> << >>]
  /\ UNCHANGED <<reports, observations, blobs, uploads, nextReport, nextObs,
                 companies, userCompanies, nextCompany, req>>

NextConcurrent ==
  \/ ReceiveConcurrent
  \/ CtlCreateReport
  \/ \E c \in 1..2 : ReadObservations(c)
  \/ \E c \in 1..2 : WriteObservations(c)
  \/ FinishPair
  \/ Respond

SpecConcurrent == Init /\ [][NextConcurrent]_vars

(* --------------------- reports and images of two users ------------------ *)

\* createReport by either user: one observation, with or without a file
SharedCreates ==
  {[NoReq EXCEPT !.op = "create", !.impl = impl, !.userId = u, !.companyId = 1,
                 !.observations = <<Entry(NoId, "a", Undef, NoUrl, FALSE, NoId)>>,
                 !.nFiles = n] :
     impl \in {"ctl", "svc"}, u \in Users,
     n \in {k \in 0..1 : Len(uploads) + k <= MaxFiles}}

\* updateReport by the report's creating user: one entry that supplies an
\* image URL (any URL of the public bucket), with or without a deletion id
SharedUpdates ==
  UNION {{UpdateReq(impl, reports[rid].user_id, rid, Undef, es, {}, ids) :
            impl \in {"ctl", "svc"},
            es \in Lists({Entry(id, Undef, Undef, url, FALSE, NoId) :
                            id \in ExistingObsMap(Db, rid), url \in KnownUrls},
                         1, 1),
            ids \in DelLists} :
         rid \in DOMAIN reports}

SharedDeletes ==
  {r \in DeleteRequests : OwnsReport(Db, r.reportId, r.userId)}

ReceiveShared ==
  /\ Idle
  /\ \E r \in {c \in SharedCreates : nextReport <= MaxReports /\ nextObs <= MaxObs}
              \cup SharedUpdates \cup SharedDeletes : req' = r
  /\ UNCHANGED <<reports, observations, blobs, uploads, nextReport, nextObs,
                 companies, userCompanies, nextCompany, resp>>

NextShared ==
  \/ ReceiveShared
  \/ CtlCreateReport
  \/ SvcCreateReport
  \/ CtlUpdateReport
  \/ SvcUpdateReport
  \/ CtlDeleteReport
  \/ SvcDeleteReport
  \/ Respond

SpecShared == Init /\ [][NextShared]_vars

(* ------------------- createReport with a rejected upload ---------------- *)

\* create requests during which the bucket may answer one of the uploads with
\* an error
FailingCreates ==
  {[c EXCEPT !.uploadFails = n] :
     <<c, n>> \in {x \in CreateRequests \X (0..MaxFiles) :
                    x[2] = NoId \/ x[2] <= CreateUploads(x[1])}}

ReceiveFailing ==
  /\ Idle
  /\ \E r \in {c \in FailingCreates : nextReport <= MaxReports} : req' = r
  /\ UNCHANGED <<reports, observations, blobs, uploads, nextReport, nextObs,
                 companies, userCompanies, nextCompany, resp>>

NextUpload ==
  \/ ReceiveFailing
  \/ CtlCreateReport
  \/ SvcCreateReport
  \/ Respond

SpecUpload == Init /\ [][NextUpload]_vars

(* ------------------------ the fields of a report ------------------------ *)

\* the report row createReport stores for a request that gives date and
\* description only: contact || '', ..., visit_confirmation false, 'draft'
SeedReport(u) ==
  [user_id |-> u, company_id |-> 1, status |-> "draft", date |-> "d1",
   description |-> "x1", contact |-> Empty, verification |-> Empty,
   recommendations |-> Empty, signature |-> Empty,
   visit_confirmation |-> FALSE, updated_at |-> "t0"]

\* the fields of req.body that updateReport reads
BodyFields == TruthyFields \cup PresentFields \cup {"visitConfirmation"}

NoFields == [f \in BodyFields |-> Undef]

\* one field of a request with a value sent for it
FieldValues ==
  ({"date"} \X {Undef, Empty, "d2", "bad"})
  \cup ({"description"} \X {Empty, "x2"})
  \cup ({"status"} \X {Empty, "finalized", "bogus"})
  \cup (PresentFields \X {Empty, "c2"})
  \cup ({"visitConfirmation"} \X {"true", "'true'", "false", "'false'"})

\* the bodies explored: at most two fields supplied
FieldBodies ==
  {[NoFields EXCEPT ![a[1]] = a[2], ![b[1]] = b[2]] :
     a \in FieldValues, b \in FieldValues}

\* the times at which NOW() is read
UpdateTimes == {"t1", "t2"}

\* updateReport on the caller's report, without observations
FieldRequests ==
  {[NoReq EXCEPT !.op = "update", !.impl = impl, !.userId = "u1",
                 !.reportId = 1, !.body = b, !.now = t] :
     impl \in {"ctl", "svc"}, b \in FieldBodies, t \in UpdateTimes}

ReceiveFields ==
  /\ Idle
  /\ \E r \in FieldRequests : req' = r
  /\ UNCHANGED <<reports, observations, blobs, uploads, nextReport, nextObs,
                 companies, userCompanies, nextCompany, resp>>

InitFields ==
  /\ reports = <<SeedReport("u1"), SeedReport("u2")>>
  /\ observations = << >>
  /\ blobs = {}
  /\ uploads = << >>
  /\ nextReport = 3
  /\ nextObs = 1
  /\ companies = <<SeedCompany>>
  /\ userCompanies = {<<u, 1>> : u \in Users}
  /\ nextCompany = 2
  /\ req = NoReq
  /\ resp = NoResp

NextFields ==
  \/ ReceiveFields
  \/ CtlUpdateReport
  \/ SvcUpdateReport
  \/ Respond

SpecFields == InitFields /\ [][NextFields]_vars

(* ------------------------------- pdfService ----------------------------- *)

\* the values new Date() can take while the service runs
Clock == {"t1", "t2"}

\* String.prototype.toUpperCase on the values of status and risk_level
ToUpperCase(v) ==
  CASE v = "low" -> "LOW"
    [] v = "medium" -> "MEDIUM"
    [] v = "high" -> "HIGH"
    [] v = "draft" -> "DRAFT"
    [] v = "finalized" -> "FINALIZED"
    [] OTHER -> v

\* { low: 'risk-low', medium: 'risk-medium', high: 'risk-high' }[obs.risk_level]
\*   || 'risk-low'
RiskLevelClass(level) ==
  CASE level = "medium" -> "risk-medium"
    [] level = "high" -> "risk-high"
    [] OTHER -> "risk-low"

\* the <div class="observation"> of one observation
ObservationHtml(obs) ==
  <<"<div class=observation>", RiskLevelClass(obs.risk_level),
    ToUpperCase(obs.risk_level), "<p>", obs.observation, "</p>">>
  \o (IF obs.image_url # Undef THEN <<"<img src=", obs.image_url, ">">> ELSE << >>)
  \o <<"</div>">>

\* report.observations?.map(...).join('') || '<p>No observations recorded</p>'
RECURSIVE JoinObservations(_)
JoinObservations(obs) ==
  IF obs = << >> THEN << >>
  ELSE ObservationHtml(Head(obs)) \o JoinObservations(Tail(obs))

ObservationsHtml(obs) ==
  IF obs = << >> THEN <<"<p>No observations recorded</p>">>
  ELSE JoinObservations(obs)

\* generateHtmlTemplate(report), called while new Date() reads now; the HTML
\* is the sequence of the template's pieces
GenerateHtmlTemplate(report, now) ==
  <<"<html>", "Company: ", Or(report.companies.name, "N/A"),
    "Date:", "toLocaleDateString", report.date,
    "Contact:", Or(report.contact, "N/A"),
    "Status:", ToUpperCase(report.status),
    "Visit Confirmation:",
    IF report.visit_confirmation THEN "Confirmed" ELSE "Not confirmed",
    "Description", report.description,
    "Verification", Or(report.verification, "No verification details provided"),
    "Observations">>
  \o ObservationsHtml(report.observations)
  \o <<"Recommendations", Or(report.recommendations, "No recommendations provided"),
       "Professional Signature: ", Or(report.signature, "Not signed"),
       "This report was generated on ", "toLocaleString", now, "</html>">>

\* the reports the service is called with: a row of reports joined with its
\* company and its observations
PdfObservations ==
  {[observation |-> "a", risk_level |-> rl, image_url |-> url] :
     rl \in RiskLevels, url \in {Undef, "url1"}}

PdfReports ==
  {[companies |-> [name |-> cn], date |-> "d1", contact |-> c, status |-> st,
    visit_confirmation |-> vc, description |-> "desc", verification |-> Undef,
    observations |-> obs, recommendations |-> Undef, signature |-> sg] :
     cn \in {Undef, "n1"}, c \in {Undef, "c"}, st \in StatusValues,
     vc \in BOOLEAN, obs \in Lists(PdfObservations, 0, MaxEntries),
     sg \in {Undef, "s"}}

\* generatePdf(report) is called at some time
ReceivePdf ==
  /\ Idle
  /\ \E rep \in PdfReports, t \in Clock :
       req' = [op |-> "generatePdf", impl |-> "svc", report |-> rep, now |-> t]
  /\ UNCHANGED <<reports, observations, blobs, uploads, nextReport, nextObs,
                 companies, userCompanies, nextCompany, resp>>

\* const htmlContent = generateHtmlTemplate(report)
GeneratePdf ==
  /\ Pending("generatePdf", "svc")
  /\ resp' = [status |-> 200, html |-> GenerateHtmlTemplate(req.report, req.now)]
  /\ UNCHANGED <<reports, observations, blobs, uploads, nextReport, nextObs,
                 companies, userCompanies, nextCompany, req>>

NextPdf ==
  \/ ReceivePdf
  \/ GeneratePdf
  \/ Respond

SpecPdf == InitCompany /\ [][NextPdf]_vars

(* ------------------------- the claims: vocabulary ----------------------- *)

\* a handler has run on the request; resp.pre is the store it started from
Handled(op) == req.op = op /\ resp.status # 0

Entries == req.observations

EntryIdx == 1..Len(req.observations)

\* the ids that were observations of the request's report before the call
PreIds ==
  {i \in DOMAIN resp.pre.observations :
     resp.pre.observations[i].report_id = req.reportId}

\* the observations of the request's report now
NowIds == {i \in DOMAIN observations : observations[i].report_id = req.reportId}

WasOwner ==
  /\ req.reportId \in DOMAIN resp.pre.reports
  /\ resp.pre.reports[req.reportId].user_id = req.userId

\* the entry names an observation the report had before the call
NamesExisting(e) == e.id # NoId /\ e.id \in PreIds

DelIds == {req.observationsToDelete[k] : k \in 1..Len(req.observationsToDelete)}

(* --------------------------------- C1 ----------------------------------- *)

\* C1: updateReport and deleteReport by a user who is not the report's
\* creating user, or for a report id that does not exist, answer 404 and leave
\* every report row, observation row and stored blob as it was.
C1_NotOwnerChangesNothing ==
  (Handled("update") \/ Handled("delete")) /\ ~WasOwner
    => /\ resp.status = 404
       /\ reports = resp.pre.reports
       /\ observations = resp.pre.observations
       /\ blobs = resp.pre.blobs
       /\ uploads = resp.pre.uploads

C1_Witness ==
  /\ Handled("update")
  /\ req.reportId \in DOMAIN resp.pre.reports
  /\ resp.pre.reports[req.reportId].user_id # req.userId
  /\ PreIds # {}
  /\ Len(Entries) > 0
  /\ resp.status = 404

(* --------------------------------- C2 ----------------------------------- *)

\* the entry keeps the image: existing id, no new image, no URL supplied
KeepsImage(e) == NamesExisting(e) /\ ~e.newImage /\ e.imageUrl = NoUrl

C3_DeletionIdsAreDeleted ==
  Handled("update") /\ WasOwner /\ resp.status = 200 =>
    \A i \in DelIds : i \in PreIds => i \notin DOMAIN observations

(* --------------------------------- C4 ----------------------------------- *)

\* C4: an updateReport removes no blob that an observation still existing
\* after the call references.
C4_NoLiveBlobRemoved ==
  Handled("update") =>
    \A p \in resp.pre.blobs \ blobs :
      \A i \in DOMAIN observations : observations[i].image_url # PublicUrl(p)

(* --------------------------------- C5 ----------------------------------- *)

\* C5: an updateReport that lists an observation among the deletion ids and
\* also edits it is rejected as a validation error and changes no observation.
C5_DeleteAndEditRejected ==
  /\ Handled("update") /\ WasOwner
  /\ \E k \in EntryIdx : NamesExisting(Entries[k]) /\ Entries[k].id \in DelIds
  => resp.status = 400 /\ observations = resp.pre.observations

(* --------------------------------- C6 ----------------------------------- *)

\* the entries that name no observation of the report: no id, or an unknown id
NewIdx == {k \in EntryIdx : ~NamesExisting(Entries[k])}

\* the rows of the report that the call added
NewIds == NowIds \ DOMAIN resp.pre.observations

\* the entry has text, and a risk level that is omitted or an enumerated one
WellFormed(e) ==
  e.observation # Undef /\ e.riskLevel \in RiskLevels \cup {Undef}

\* C6: in an updateReport call whose entries all have no id or an unknown id,
\* each with text and an omitted or enumerated risk level, every entry becomes
\* exactly one new row of the report and the call does not fail.
C6_NewEntriesNeverFail ==
  /\ Handled("update") /\ WasOwner /\ req.body.status = Undef
  /\ NewIdx = EntryIdx /\ EntryIdx # {}
  /\ \A k \in EntryIdx : WellFormed(Entries[k])
  => /\ resp.status = 200
     /\ Cardinality(NewIds) = Len(Entries)

(* --------------------------------- C7 ----------------------------------- *)

\* C7: an entry whose id is not the id of an existing observation of the
\* report is invalid input: the call is rejected and creates no observation.
C7_UnknownIdRejected ==
  /\ Handled("update") /\ WasOwner
  /\ \E k \in EntryIdx : Entries[k].id # NoId /\ Entries[k].id \notin PreIds
  => resp.status = 400 /\ observations = resp.pre.observations

(* --------------------------------- C8 ----------------------------------- *)

\* the request echoes the report's observations: every id once, with the
\* stored text and risk level, no new image, no deletion ids
IsEcho ==
  /\ Len(Entries) = Cardinality(PreIds)
  /\ \A i \in PreIds : \E k \in EntryIdx : Entries[k].id = i
  /\ \A k \in EntryIdx :
       /\ Entries[k].id \in PreIds
       /\ Entries[k].observation = resp.pre.observations[Entries[k].id].observation
       /\ Entries[k].riskLevel = resp.pre.observations[Entries[k].id].risk_level
       /\ ~Entries[k].newImage
       /\ Entries[k].imageUrl \in {NoUrl, resp.pre.observations[Entries[k].id].image_url}
  /\ DelIds = {}
  /\ req.body.status = Undef

\* C8: updateReport called with the echoed current observations succeeds and
\* leaves every observation row (ids, text, risk level, image URL) as it was.
C8_EchoChangesNothing ==
  Handled("update") /\ WasOwner /\ IsEcho
    => resp.status = 200 /\ observations = resp.pre.observations

C8_Witness ==
  /\ Handled("update") /\ WasOwner /\ IsEcho
  /\ Len(Entries) = 2
  /\ \E i \in PreIds : resp.pre.observations[i].image_url # NoUrl
  /\ resp.status = 200

(* --------------------------------- C9 ----------------------------------- *)

SameCuit == {i \in DOMAIN resp.pre.companies :
               resp.pre.companies[i].cuit = req.company.cuit}

CompleteBody ==
  \A f \in {"name", "cuit", "address", "industry"} : req.company[f] # Undef

\* C10: createCompany with the tax id of a stored company, whoever calls it,
\* succeeds, adds no company row and changes none, links the caller to the
\* stored company and returns that company as it was stored.
C10_CreateWithKnownCuitLinks ==
  Handled("createCompany") /\ CompleteBody /\ SameCuit # {}
    => /\ resp.status = 201
       /\ companies = resp.pre.companies
       /\ \E i \in SameCuit :
            /\ <<req.userId, i>> \in userCompanies
            /\ resp.data = [id |-> i, row |-> resp.pre.companies[i]]

(* --------------------------------- C11 ---------------------------------- *)

\* the caller had an association row with the request's company
WasAssociated == <<req.userId, req.companyId>> \in resp.pre.userCompanies

\* C11: updateCompany by a user who has no association row with the company
\* returns 404 and leaves every company row as it was.
C11_UnassociatedUpdateChangesNothing ==
  Handled("updateCompany") /\ ~WasAssociated
    => resp.status = 404 /\ companies = resp.pre.companies

C11_Witness ==
  /\ Handled("updateCompany") /\ ~WasAssociated
  /\ req.companyId \in DOMAIN resp.pre.companies
  /\ \E u \in Users : <<u, req.companyId>> \in resp.pre.userCompanies
  /\ req.company.name # Undef
  /\ req.company.name # resp.pre.companies[req.companyId].name
  /\ resp.status = 404

(* --------------------------------- C12 ---------------------------------- *)

Answered == req.op = "http" /\ resp.status # 0

\* the request carries no usable bearer token, or the provider gave no user
NotAuthenticated ==
  \/ ~(Len(req.headers) >= 2 /\ req.headers[1] = "Bearer")
  \/ req.provider \in {"error", "nouser", "throws"}

\* C12 as claimed: a handler runs only for a request whose bearer token the
\* provider resolved to a user, attached to the request; a missing header, a
\* header that is not a Bearer token, a rejected token and a failing provider
\* call are each answered 401 without the handler.
C12_Unauthenticated401 ==
  Answered =>
    /\ resp.handler =>
         /\ Len(req.headers) >= 2 /\ req.headers[1] = "Bearer"
         /\ req.user # NoUser /\ req.user = TokenUser(req.headers[2])
    /\ NotAuthenticated => resp.status = 401 /\ ~resp.handler

\* C12 as amended: the same, except that a provider call that throws is
\* answered 500, also without the handler.
C12_UnauthenticatedNoHandler ==
  Answered =>
    /\ resp.handler =>
         /\ Len(req.headers) >= 2 /\ req.headers[1] = "Bearer"
         /\ req.user # NoUser /\ req.user = TokenUser(req.headers[2])
    /\ NotAuthenticated =>
         /\ ~resp.handler
         /\ resp.status = (IF req.provider = "throws" THEN 500 ELSE 401)

C12_Witness ==
  /\ Answered /\ ~resp.handler
  /\ req.route = <<"reports", "PUT /:id">>
  /\ req.headers = <<"Bearer", "bad">>
  /\ req.provider = "error" /\ resp.status = 401

(* --------------------------------- C13 ---------------------------------- *)

\* C13: GET, PUT and DELETE on /api/reports/:id and /api/companies/:id answer a
\* caller who does not own the report, or is not associated with the company,
\* with the same 404 and the same body whether or not the record exists.
C13_NotFoundAlike ==
  /\ (Handled("get") \/ Handled("update") \/ Handled("delete"))
       /\ req.impl = "ctl" /\ ~WasOwner
       => resp.status = 404 /\ resp.error = "Report not found"
  /\ (Handled("getCompany") \/ Handled("updateCompany")
        \/ Handled("removeCompanyAssociation")) /\ ~WasAssociated
       => resp.status = 404 /\ resp.error = "Company not found"

(* --------------------------------- C14 ---------------------------------- *)

\* the request carries a status or a risk level outside its enumeration
BadEnum ==
  \/ req.body.status \notin StatusValues \cup {Undef}
  \/ \E k \in EntryIdx : Entries[k].riskLevel \notin RiskLevels \cup {Undef}

\* C14: a createReport or updateReport request with a status or a risk level
\* outside its enumeration is rejected (400) and writes or changes no report
\* row, no observation row and no blob.
C14_BadEnumRejectedBeforeWrites ==
  /\ \/ Handled("create") /\ <<req.userId, req.companyId>> \in userCompanies
     \/ Handled("update") /\ WasOwner
  /\ BadEnum
  => /\ resp.status = 400
     /\ reports = resp.pre.reports
     /\ observations = resp.pre.observations
     /\ blobs = resp.pre.blobs

(* --------------------------------- C15 ---------------------------------- *)

\* C15: after a successful updateReport no blob remains in storage that an
\* observation of the report referenced before the call and no observation
\* references now (its image was replaced, or it was deleted).
C15_NoOrphanBlob ==
  Handled("update") /\ WasOwner /\ resp.status = 200 =>
    \A i \in PreIds :
      LET url == resp.pre.observations[i].image_url
      IN url # NoUrl /\ (\A j \in DOMAIN observations : observations[j].image_url # url)
           => \A p \in blobs : PublicUrl(p) # url

(* --------------------------------- C16 ---------------------------------- *)

\* C16: when a createReport or updateReport request finishes, on every path,
\* none of the temporary files it wrote to local disk remains.
C16_NoTempFileRemains ==
  Handled("create") \/ Handled("update") \/ Handled("put") => resp.tmp = {}

(* --------------------------------- C17 ---------------------------------- *)

\* the outcome the finished call would have had with a bucket that removes
SvcUpdateWithStorage == SvcUpdateReportResult(Storage(resp.pre, FALSE), req)

\* the request deletes an observation of the report that has an image
DeletesImageRow(i) ==
  /\ i \in DelIds /\ i \in PreIds
  /\ resp.pre.observations[i].image_url # NoUrl
  /\ Len(req.observations) > 0

UploadedUrl == PublicUrl(uploads[Len(uploads)])

Uploaded == Len(uploads) > Len(resp.pre.uploads)

\* the request's entry edits observation i with a new image in field image_<i>
EditsWithFile(e) ==
  NamesExisting(e) /\ e.newImage /\ ImageField(e.id) \in req.files

\* the request's entry is new, with temporary id t and a file in image_new_<t>
AddsWithFile(e) ==
  e.id = NoId /\ e.tempId # NoId /\ ImageNewField(e.tempId) \in req.files

\* C18: a PUT /api/reports/:id whose entry edits an observation with a new
\* image and a file in field image_<id> leaves that observation with the URL
\* of the uploaded blob; a new entry with temporary id t and a file in field
\* image_new_<t> is inserted with the URL of the uploaded blob.
C18_PutStoresUploadedUrl ==
  Handled("put") /\ WasOwner /\ Len(Entries) = 1
    => /\ EditsWithFile(Entries[1])
            => /\ Uploaded
               /\ observations[Entries[1].id].image_url = UploadedUrl
       /\ AddsWithFile(Entries[1])
            => /\ Uploaded
               /\ \E i \in NowIds \ PreIds : observations[i].image_url = UploadedUrl

(* --------------------------------- C19 ---------------------------------- *)

\* the storage paths (user namespace, file name) under which the images of the
\* report's observations were uploaded
ImagePaths ==
  {p \in {resp.pre.uploads[k] : k \in 1..Len(resp.pre.uploads)} :
     \E i \in PreIds : resp.pre.observations[i].image_url = PublicUrl(p)}

\* C19: after deleteReport succeeds the report and its observations are gone,
\* and removal was requested for exactly the storage paths under which the
\* images of its observations were uploaded.
C19_DeleteRemovesUploadedPaths ==
  Handled("delete") /\ resp.status = 200
    => /\ req.reportId \notin DOMAIN reports
       /\ NowIds = {}
       /\ resp.removed = ImagePaths

(* --------------------------------- C20 ---------------------------------- *)

\* C20: DELETE /api/companies/:id by user U removes the association row
\* (U, company) and nothing else: the company row, the other associations, the
\* reports and their observations are as before.
C20_RemovesOnlyTheAssociation ==
  Handled("removeCompanyAssociation")
    => /\ userCompanies = resp.pre.userCompanies \ {<<req.userId, req.companyId>>}
       /\ companies = resp.pre.companies
       /\ reports = resp.pre.reports
       /\ observations = resp.pre.observations

\* an association is removed from a company that another user is associated
\* with and that has a report of the removing user
C20_Witness ==
  /\ Handled("removeCompanyAssociation")
  /\ WasAssociated
  /\ <<req.userId, req.companyId>> \notin userCompanies
  /\ \E u \in Users \ {req.userId} : <<u, req.companyId>> \in userCompanies
  /\ \E i \in DOMAIN reports :
       /\ reports[i].company_id = req.companyId
       /\ reports[i].user_id = req.userId
       /\ \E o \in DOMAIN observations : observations[o].report_id = i

(* --------------------------------- C21 ---------------------------------- *)

\* the observations of other reports before the call
ForeignIds == DOMAIN resp.pre.observations \ PreIds

\* an entry or a deletion id of the request names an observation of another
\* report
NamesForeign ==
  \/ \E k \in EntryIdx : Entries[k].id \in ForeignIds
  \/ DelIds \cap ForeignIds # {}

\* C21: updateReport for report R by user U inserts, updates and deletes only
\* observation rows of R, and only when U owns R: an observation of another
\* report that an entry or a deletion id names is neither changed nor removed.
C21_OnlyOwnReportsObservations ==
  Handled("update")
    => /\ \A i \in ForeignIds :
            i \in DOMAIN observations /\ observations[i] = resp.pre.observations[i]
       /\ \A i \in DOMAIN observations \ DOMAIN resp.pre.observations :
            observations[i].report_id = req.reportId
       /\ ~WasOwner => observations = resp.pre.observations

\* a successful update by the owner whose entry or deletion id names an
\* observation of another report, and which wrote some observation
C21_Witness ==
  /\ Handled("update") /\ WasOwner /\ resp.status = 200
  /\ NamesForeign
  /\ DelIds \cap ForeignIds # {}
  /\ PreIds # NowIds \/ observations # resp.pre.observations

(* --------------------------------- C22 ---------------------------------- *)

\* C22: the HTML produced for the PDF is a function of the report and its
\* ordered observations alone: rendering the same report at any other time
\* yields the same HTML.
C22_HtmlIndependentOfTime ==
  Handled("generatePdf")
    => \A t \in Clock : GenerateHtmlTemplate(req.report, t) = resp.html

(* --------------------------------- C23 ---------------------------------- *)

\* the statements on observations the finished call issued, in order
ObsWrites == SelectSeq(resp.log, LAMBDA w : w \in {"delete", "update", "insert"})

\* the place of a statement in the order deletions, updates, inserts
WriteRank(w) == CASE w = "delete" -> 1 [] w = "update" -> 2 [] OTHER -> 3

\* C23: within one updateReport call the writes on observations are issued
\* in the order: all deletions, then all updates, then all inserts.
C23_DeletesUpdatesInserts ==
  Handled("update")
    => \A i, j \in 1..Len(ObsWrites) :
         i < j => WriteRank(ObsWrites[i]) <= WriteRank(ObsWrites[j])

(* --------------------------------- C24 ---------------------------------- *)

\* C24: within one updateReport call no write on observations is issued
\* before every image upload of that call has settled.
C24_UploadsBeforeWrites ==
  Handled("update")
    => \A i, j \in 1..Len(resp.log) :
         i < j /\ resp.log[j] = "upload" => resp.log[i] = "upload"

(* --------------------------------- C25 ---------------------------------- *)

\* the edit list is two entries that name the same observation of the report,
\* with risk levels the table accepts
TwiceTheSameId ==
  /\ Len(Entries) = 2
  /\ NamesExisting(Entries[1]) /\ Entries[2].id = Entries[1].id
  /\ \A k \in EntryIdx : Entries[k].riskLevel \in RiskLevels \cup {Undef}
  /\ ~UpdateReportFails(req.body)

\* the image URL an entry resolves to: its upload, its URL, the stored URL
ResolvedImageUrl(e) ==
  IF e.newImage /\ ImageField(e.id) \in req.files
  THEN PublicUrl(uploads[Len(uploads)])
  ELSE UrlOr(e.imageUrl, resp.pre.observations[e.id].image_url)

\* C25: an updateReport call whose edit list holds two entries with the same
\* existing observation id succeeds and leaves the observation with the text,
\* risk level and image URL resolved from the later entry, also when both
\* entries signal a new image and match the same uploaded file.
C25_SameIdLastEntryWins ==
  Handled("update") /\ WasOwner /\ TwiceTheSameId
    => /\ resp.status = 200
       /\ LET e == Entries[2]
              old == resp.pre.observations[e.id]
          IN /\ e.id \in DOMAIN observations
             /\ observations[e.id].observation = Or(e.observation, old.observation)
             /\ observations[e.id].risk_level = Or(e.riskLevel, old.risk_level)
             /\ observations[e.id].image_url = ResolvedImageUrl(e)

(* --------------------------------- C26 ---------------------------------- *)

\* the (text, risk level, image URL) a call writes: its entry's values, where
\* given, over the values the call read, with the URL of its own upload
WrittenTriple(call) ==
  LET e   == call.entry
      old == call.snap[e.id]
  IN [observation |-> Or(e.observation, old.observation),
      risk_level |-> Or(e.riskLevel, old.risk_level),
      image_url |-> IF call.path # << >> THEN PublicUrl(call.path)
                    ELSE UrlOr(e.imageUrl, old.image_url)]

\* the stored (text, risk level, image URL) of the observation the calls edit
StoredTriple ==
  LET row == observations[req.calls[1].entry.id]
  IN [observation |-> row.observation, risk_level |-> row.risk_level,
      image_url |-> row.image_url]

SameNewCuit ==
  /\ req.calls[1].company.cuit = req.calls[2].company.cuit
  /\ ~CuitTaken(resp.pre, req.calls[1].company.cuit)

\* C27: when two different users call createCompany concurrently with the
\* same tax id that is not yet stored, in every interleaving exactly one
\* company row with that tax id exists afterwards, both calls succeed, and
\* both users are associated with that company.
C27_ConcurrentCreateLinksBoth ==
  Handled("createPair") /\ SameNewCuit
    => /\ Cardinality(CompanyByCuit(CompanyDb, req.calls[1].company.cuit)) = 1
       /\ \A c \in 1..2 : req.calls[c].status = 201
       /\ \A i \in CompanyByCuit(CompanyDb, req.calls[1].company.cuit) :
            \A c \in 1..2 : <<req.calls[c].userId, i>> \in userCompanies

(* --------------------------------- C28 ---------------------------------- *)

\* C28: no report create, update or delete request of user U removes from
\* storage a blob stored under another user's path prefix, whatever image
\* URLs U supplies in edit entries.
C28_NoForeignBlobRemoved ==
  Handled("create") \/ Handled("update") \/ Handled("delete")
    => \A p \in resp.pre.blobs \ blobs : p[1] = req.userId

(* --------------------------------- C29 ---------------------------------- *)

\* the report row of the call: the one inserted under the next free id
CreatedReport == resp.pre.nextReport

\* the call got as far as inserting its report row: the company was found
\* and the row passed the table's checks
ReportRowInserted ==
  /\ CompanyOfUser(req.companyId, req.userId)
  /\ StatusCheck(CreateStatus(req.body))

\* the blobs stored by the uploads of the call
UploadedByCall ==
  {uploads[k] : k \in (Len(resp.pre.uploads) + 1)..Len(uploads)} \cap blobs

\* after the report row was inserted, an upload was rejected or the insert of
\* the observations failed
CreateFailedLate ==
  /\ Handled("create")
  /\ ReportRowInserted
  /\ \/ req.uploadFails # NoId
     \/ \E k \in EntryIdx :
          \/ Entries[k].observation = Undef
          \/ InsertRiskLevel(Entries[k]) \notin RiskLevels

\* C29: when an image upload or the insert of the observations fails during
\* createReport after the report row was inserted, the call answers with an
\* error, the report row stays stored without any observation of the request,
\* and the blobs already uploaded by the call stay in storage.
C29_NoRollbackOnLateFailure ==
  CreateFailedLate
    => /\ resp.status >= 400
       /\ CreatedReport \in DOMAIN reports
       /\ reports[CreatedReport].user_id = req.userId
       /\ reports[CreatedReport].company_id = req.companyId
       /\ observations = resp.pre.observations
       /\ resp.pre.blobs \subseteq blobs
       /\ Cardinality(blobs \ resp.pre.blobs) =
            (IF req.uploadFails # NoId THEN CreateUploads(req) - 1
             ELSE CreateUploads(req))
       /\ blobs \ resp.pre.blobs = UploadedByCall

\* an upload was rejected while another upload of the same call was stored
C29_Witness ==
  /\ CreateFailedLate
  /\ req.uploadFails # NoId
  /\ UploadedByCall # {}
  /\ CreatedReport \in DOMAIN reports

\* the insert of the observations failed after an upload of the call
C29_WitnessInsert ==
  /\ CreateFailedLate
  /\ req.uploadFails = NoId
  /\ UploadedByCall # {}
  /\ CreatedReport \in DOMAIN reports

(* --------------------------------- C30 ---------------------------------- *)

\* the column a request field is written to
ColumnOf(f) == IF f = "visitConfirmation" THEN "visit_confirmation" ELSE f

\* the request supplies the field: given and non-empty for date, description
\* and status, present for the others
Supplied(f) ==
  IF f \in TruthyFields THEN req.body[f] \notin {Undef, Empty}
  ELSE req.body[f] # Undef

\* the report row before and after the call
RowBefore == resp.pre.reports[req.reportId]

RowAfter == reports[req.reportId]

\* C30: updateReport changes only the report fields supplied in the request:
\* date, description and status are written only when given and non-empty;
\* contact, verification, recommendations, signature and the visit-confirmation
\* flag only when present (visit confirmation becomes true exactly for true
\* and 'true'); every field not supplied, the report's company and its
\* creating user are left unchanged.
C30_OnlySuppliedFieldsChange ==
  Handled("update") /\ DOMAIN req.body = BodyFields
    => /\ \A f \in BodyFields :
            ~Supplied(f) => RowAfter[ColumnOf(f)] = RowBefore[ColumnOf(f)]
       /\ RowAfter.company_id = RowBefore.company_id
       /\ RowAfter.user_id = RowBefore.user_id
       /\ resp.status = 200 =>
            /\ \A f \in BodyFields \ {"visitConfirmation"} :
                 Supplied(f) => RowAfter[f] = req.body[f]
            /\ Supplied("visitConfirmation") =>
                 (RowAfter.visit_confirmation
                    <=> req.body.visitConfirmation \in {"true", "'true'"})
       /\ \A i \in DOMAIN reports \ {req.reportId} :
            reports[i] = resp.pre.reports[i]

\* a call that supplied an empty contact and a visit confirmation of 'true'
\* wrote both and left the other fields as they were
C30_Witness ==
  /\ Handled("update") /\ DOMAIN req.body = BodyFields
  /\ resp.status = 200
  /\ req.body.visitConfirmation = "'true'" /\ ~RowBefore.visit_confirmation
  /\ RowAfter.visit_confirmation
  /\ req.body.contact = Empty /\ RowBefore.contact = "c2"
  /\ RowAfter.contact = Empty
  /\ RowAfter.description = "x2" /\ req.body.description = Undef

====
